---- MODULE Spec2Model ----
\* Microblock submission processing of the directory service
\* (src/src/libDirectoryService/MicroBlockProcessing.cpp).  Every in-flight call
\* of DirectoryService::ProcessMicroblockSubmission is a process with a position
\* pc; isLookupNode tells which of the two builds (IS_LOOKUP_NODE) is running.
EXTENDS Integers, Sequences, FiniteSets, TLC

\* ---------------------------------------------------------------- bounds
NumCalls == 2        \* calls of ProcessMicroblockSubmission in flight in Spec
MaxShards == 2       \* largest m_shards.size()
CommitteeSize == 4   \* largest shard roster
NumDigests == 2      \* distinct microblock contents per shard

\* ------------------------------------------------------- program constants
UINT256_SIZE == 32       \* sizeof(uint256_t)
UINT32_SIZE == 4         \* sizeof(uint32_t)
TxBlockGetMinSize == 8   \* TxBlock::GetMinSize()
m_consensusID == 1       \* the round's consensus id
LatestDSBlockNum == 5    \* number of the latest DS block of the mediator

VARIABLES
    m_state,        \* DirectoryService::m_state, read by CheckState
    m_microBlocks,  \* std::set<MicroBlock>, guarded by m_mutexMicroBlocks
    m_shards,       \* vector of shard rosters: shard id -> sequence of PubKey
    mutex,          \* holder of m_mutexMicroBlocks, 0 when free
    pc,             \* position of every call
    msg,            \* the message every call was handed
    ret,            \* what every call returned, and at which return statement
    cosig,          \* outcome of VerifyMicroblockCoSignature in every call
    atInsert,       \* what every call saw when it executed line 166
    fired,          \* calls that invoked RunConsensusOnFinalBlock
    decoded,        \* message fields every call has read (lines 112-139)
    isLookupNode    \* TRUE in the build with IS_LOOKUP_NODE defined

vars == <<m_state, m_microBlocks, m_shards, mutex, pc, msg, ret, cosig, atInsert, fired,
          decoded, isLookupNode>>

Calls == DOMAIN pc
Shards == DOMAIN m_shards
Digests == 1..NumDigests

\* ------------------------------------------------------------ the registry
PubKey(s, i) == <<s, i>>
UnknownKey == <<MaxShards + CommitteeSize, 1>>

\* A shard's roster is a map<PubKey, Peer>; iteration is in key order.
Roster(s, n) == [i \in 1..n |-> PubKey(s, i)]
Registry(N, n) == [s \in 0..(N - 1) |-> Roster(s, n)]

RosterKeys(s) == {m_shards[s][i] : i \in 1..Len(m_shards[s])}

\* m_publicKeyToShardIdMap: the inverse of m_shards.
m_publicKeyToShardIdMap ==
    [k \in UNION {RosterKeys(s) : s \in Shards} |->
        CHOOSE s \in Shards : k \in RosterKeys(s)]

\* ConsensusCommon::NumForConsensus
NumForConsensus(n) == (2 * n) \div 3 + 1

\* ------------------------------------------------------------- predicates
CheckState == m_state = "MICROBLOCK_SUBMISSION"

MinMessageSize == UINT256_SIZE + UINT32_SIZE + UINT32_SIZE + TxBlockGetMinSize

IsMessageSizeInappropriate(size, offset, min) == size - offset < min

CheckWhetherDSBlockIsFresh(n) == n = LatestDSBlockNum + 1

\* MultiSig::AggregatePubKeys: the aggregate of a key list, nullptr for none.
AggregatePubKeys(keys) == [null |-> keys = {}, keys |-> keys]

\* Schnorr::Verify of the serialized microblock under the aggregated key.
SchnorrVerify(microBlock, aggregatedKey) ==
    /\ microBlock.sig.signers = aggregatedKey.keys
    /\ microBlock.sig.digest = microBlock.digest

\* Keys selected by the loop of lines 52-60 over the first n roster positions.
SelectedKeys(roster, bitmap, n) == {roster[i] : i \in {j \in 1..n : bitmap[j]}}

CountMismatchInverted(count, required) == count > required

CountMismatch(count, required) == count # required

VerifyMicroblockCoSignature(microBlock, shardId) ==
    LET bitmap == microBlock.bitmap
        roster == m_shards[shardId]
        keys == SelectedKeys(roster, bitmap, Len(roster))
    IN  IF shardId \notin Shards THEN "out_of_range"
        ELSE IF Len(bitmap) < Len(roster) THEN "out_of_range"
        ELSE IF CountMismatch(Cardinality(keys), NumForConsensus(Len(bitmap)))
            THEN "InsufficientSigners"
        ELSE IF AggregatePubKeys(keys).null THEN "AggregationFailed"
        ELSE IF ~SchnorrVerify(microBlock, AggregatePubKeys(keys))
            THEN "SignatureInvalid"
        ELSE "ok"

\* The checks of lines 103-151 without the comparison of line 152.
ParseOutcomeNoShardCheck(m) ==
    IF IsMessageSizeInappropriate(m.size, m.offset, MinMessageSize) THEN "TooShort"
    ELSE IF ~CheckWhetherDSBlockIsFresh(m.DSBlockNum + 1) THEN "StaleRound"
    ELSE IF m.consensusID # m_consensusID THEN "RoundMismatch"
    ELSE IF m.microBlock.minerPubKey \notin DOMAIN m_publicKeyToShardIdMap
        THEN "UnknownProducer"
    ELSE "ok"

\* The checks of lines 103-157 without the comparison of line 125.
ParseOutcomeNoRoundCheck(m) ==
    IF IsMessageSizeInappropriate(m.size, m.offset, MinMessageSize) THEN "TooShort"
    ELSE IF ~CheckWhetherDSBlockIsFresh(m.DSBlockNum + 1) THEN "StaleRound"
    ELSE IF m.microBlock.minerPubKey \notin DOMAIN m_publicKeyToShardIdMap
        THEN "UnknownProducer"
    ELSE IF m_publicKeyToShardIdMap[m.microBlock.minerPubKey] # m.shardId
        THEN "ShardMismatch"
    ELSE "ok"

\* Lines 103-157: the first failing check of the size, freshness, consensus
\* id and producer checks, "ok" when all of them pass.
ParseOutcome(m) ==
    IF IsMessageSizeInappropriate(m.size, m.offset, MinMessageSize) THEN "TooShort"
    ELSE IF ~CheckWhetherDSBlockIsFresh(m.DSBlockNum + 1) THEN "StaleRound"
    ELSE IF m.consensusID # m_consensusID THEN "RoundMismatch"
    ELSE IF m.microBlock.minerPubKey \notin DOMAIN m_publicKeyToShardIdMap
        THEN "UnknownProducer"
    ELSE IF m_publicKeyToShardIdMap[m.microBlock.minerPubKey] # m.shardId
        THEN "ShardMismatch"
    ELSE "ok"

\* The block number read before the size check.
DecodedFieldsBeforeSizeCheck(m) == {"DSBlockNum"}

\* Lines 112-139: the fields read from the message, in the order of the code;
\* every return statement ends the reading.
DecodedFields(m) ==
    IF IsMessageSizeInappropriate(m.size, m.offset, MinMessageSize) THEN {}
    ELSE IF ~CheckWhetherDSBlockIsFresh(m.DSBlockNum + 1) THEN {"DSBlockNum"}
    ELSE IF m.consensusID # m_consensusID THEN {"DSBlockNum", "consensusID"}
    ELSE {"DSBlockNum", "consensusID", "shardId", "microBlock"}

\* Ordering of MicroBlock in the std::set: content digest and shard.
ShardOf(microBlock) == microBlock.minerPubKey[1]

SameMicroBlock(a, b) == a.digest = b.digest /\ ShardOf(a) = ShardOf(b)

\* std::set::insert
SetInsert(S, microBlock) ==
    IF \E x \in S : SameMicroBlock(x, microBlock) THEN S ELSE S \cup {microBlock}

BatchCompleteAtMost(size, shardCount) == size <= shardCount

BatchCompleteOffByOne(size, shardCount) == size + 1 = shardCount

BatchComplete(size, shardCount) == size = shardCount

\* ---------------------------------------------------------------- messages
ValidMicroBlock(s, d, n) ==
    [minerPubKey |-> PubKey(s, 1),
     digest |-> d,
     bitmap |-> [i \in 1..n |-> i <= NumForConsensus(n)],
     sig |-> [signers |-> {PubKey(s, i) : i \in 1..NumForConsensus(n)}, digest |-> d]]

ValidMessage(s, d, n) ==
    [size |-> MinMessageSize, offset |-> 0, DSBlockNum |-> LatestDSBlockNum,
     consensusID |-> m_consensusID, shardId |-> s,
     microBlock |-> ValidMicroBlock(s, d, n)]

ValidMessages(N, n) == {ValidMessage(s, d, n) : s \in 0..(N - 1), d \in Digests}

\* One valid message with one field spoiled, one message per check of the handler.
SpoiledMessages(N, n) ==
    LET v == ValidMessage(0, 1, n)
        b == v.microBlock
    IN  {[v EXCEPT !.size = MinMessageSize - 1],
         [v EXCEPT !.DSBlockNum = LatestDSBlockNum - 1],
         [v EXCEPT !.consensusID = m_consensusID + 1],
         [v EXCEPT !.microBlock = [b EXCEPT !.minerPubKey = UnknownKey]],
         [v EXCEPT !.microBlock = [b EXCEPT !.sig = [b.sig EXCEPT !.digest = NumDigests + 1]]],
         [v EXCEPT !.microBlock = [b EXCEPT !.bitmap = [i \in 1..n |-> i < NumForConsensus(n)]]]}
        \cup {[v EXCEPT !.shardId = s] : s \in 1..N}

NoRet == [val |-> "none", err |-> "none"]
NoInsert == [shardPresent |-> FALSE, grew |-> FALSE, done |-> FALSE, state |-> "none"]

InitCalls(calls, messages) ==
    /\ m_state = "MICROBLOCK_SUBMISSION"
    /\ m_microBlocks = {}
    /\ mutex = 0
    /\ pc = [t \in calls |-> "gate"]
    /\ msg \in [calls -> messages]
    /\ ret = [t \in calls |-> NoRet]
    /\ cosig = [t \in calls |-> "none"]
    /\ atInsert = [t \in calls |-> NoInsert]
    /\ fired = {}
    /\ decoded = [t \in calls |-> {}]
    /\ isLookupNode = FALSE

Init ==
    \E N \in 1..MaxShards :
        /\ m_shards = Registry(N, CommitteeSize)
        /\ InitCalls(1..NumCalls,
                     ValidMessages(N, CommitteeSize) \cup SpoiledMessages(N, CommitteeSize))

\* ----------------------------------------------------------------- actions
Return(t, val, err) ==
    /\ pc' = [pc EXCEPT ![t] = "done"]
    /\ ret' = [ret EXCEPT ![t] = [val |-> val, err |-> err]]

\* The gate with its "return false" lost: the failure is logged and the call goes on.
GateFallsThrough(t) ==
    /\ pc[t] = "gate"
    /\ pc' = [pc EXCEPT ![t] = "parse"]
    /\ UNCHANGED <<m_state, m_microBlocks, m_shards, mutex, msg, ret, cosig, atInsert, fired,
                   decoded, isLookupNode>>

\* The gate of the directory node compiled into both builds.
GateIgnoresRole(t) ==
    /\ pc[t] = "gate"
    /\ IF CheckState
          THEN pc' = [pc EXCEPT ![t] = "parse"] /\ UNCHANGED ret
          ELSE Return(t, "false", "WrongPhase")
    /\ UNCHANGED <<m_state, m_microBlocks, m_shards, mutex, msg, cosig, atInsert, fired,
                   decoded, isLookupNode>>

\* Lines 88-101: entry of the call.  With IS_LOOKUP_NODE the body is compiled out
\* and line 200 returns true; otherwise the phase gate of lines 96-101.
Gate(t) ==
    /\ pc[t] = "gate"
    /\ IF isLookupNode THEN Return(t, "true", "none")
       ELSE IF CheckState
          THEN pc' = [pc EXCEPT ![t] = "parse"] /\ UNCHANGED ret
          ELSE Return(t, "false", "WrongPhase")
    /\ UNCHANGED <<m_state, m_microBlocks, m_shards, mutex, msg, cosig, atInsert, fired,
                   decoded, isLookupNode>>

\* Lines 103-157: size, freshness, consensus id, decode, producer lookup.
Parse(t) ==
    /\ pc[t] = "parse"
    /\ IF ParseOutcome(msg[t]) = "ok"
          THEN pc' = [pc EXCEPT ![t] = "verify"] /\ UNCHANGED ret
          ELSE Return(t, "false", ParseOutcome(msg[t]))
    /\ decoded' = [decoded EXCEPT ![t] = DecodedFields(msg[t])]
    /\ UNCHANGED <<m_state, m_microBlocks, m_shards, mutex, msg, cosig, atInsert, fired,
                   isLookupNode>>

\* The lock guard of line 165 placed above the verification of line 160.
VerifyHoldingLock(t) ==
    /\ pc[t] = "verify"
    /\ mutex = 0
    /\ LET r == VerifyMicroblockCoSignature(msg[t].microBlock, msg[t].shardId)
       IN  /\ cosig' = [cosig EXCEPT ![t] = r]
           /\ IF r = "ok" THEN pc' = [pc EXCEPT ![t] = "lock"] /\ UNCHANGED ret /\ mutex' = t
              ELSE IF r = "out_of_range" THEN Return(t, "exception", r) /\ mutex' = 0
              ELSE Return(t, "false", r) /\ mutex' = 0
    /\ UNCHANGED <<m_state, m_microBlocks, m_shards, msg, atInsert, fired,
                   decoded, isLookupNode>>

\* The co-signature verified with its result ignored.
VerifyResultIgnored(t) ==
    /\ pc[t] = "verify"
    /\ cosig' = [cosig EXCEPT ![t] =
            VerifyMicroblockCoSignature(msg[t].microBlock, msg[t].shardId)]
    /\ pc' = [pc EXCEPT ![t] = "lock"]
    /\ UNCHANGED <<m_state, m_microBlocks, m_shards, mutex, msg, ret, atInsert, fired,
                   decoded, isLookupNode>>

\* Lines 160-163: the co-signature; an exception of vector::at leaves the call.
Verify(t) ==
    /\ pc[t] = "verify"
    /\ LET r == VerifyMicroblockCoSignature(msg[t].microBlock, msg[t].shardId)
       IN  /\ cosig' = [cosig EXCEPT ![t] = r]
           /\ IF r = "ok" THEN pc' = [pc EXCEPT ![t] = "lock"] /\ UNCHANGED ret
              ELSE IF r = "out_of_range" THEN Return(t, "exception", r)
              ELSE Return(t, "false", r)
    /\ UNCHANGED <<m_state, m_microBlocks, m_shards, mutex, msg, atInsert, fired,
                   decoded, isLookupNode>>

\* The lock released right after the insert and the size comparison.
InsertThenUnlock(t) ==
    /\ pc[t] = "lock"
    /\ mutex = 0
    /\ m_microBlocks' = SetInsert(m_microBlocks, msg[t].microBlock)
    /\ atInsert' = [atInsert EXCEPT ![t] =
            [shardPresent |-> \E x \in m_microBlocks : ShardOf(x) = msg[t].shardId,
             grew |-> m_microBlocks' # m_microBlocks,
             done |-> TRUE,
             state |-> m_state]]
    /\ pc' = [pc EXCEPT ![t] =
            IF Cardinality(m_microBlocks') = Cardinality(Shards)
               THEN "trigger" ELSE "return"]
    /\ UNCHANGED <<m_state, m_shards, mutex, msg, ret, cosig, fired, decoded, isLookupNode>>

\* Lines 165-171: take the lock, insert, compare the sizes.
Insert(t) ==
    /\ pc[t] = "lock"
    /\ mutex = 0
    /\ mutex' = t
    /\ m_microBlocks' = SetInsert(m_microBlocks, msg[t].microBlock)
    /\ atInsert' = [atInsert EXCEPT ![t] =
            [shardPresent |-> \E x \in m_microBlocks : ShardOf(x) = msg[t].shardId,
             grew |-> m_microBlocks' # m_microBlocks,
             done |-> TRUE,
             state |-> m_state]]
    /\ pc' = [pc EXCEPT ![t] =
            IF BatchComplete(Cardinality(m_microBlocks'), Cardinality(Shards))
               THEN "trigger" ELSE "return"]
    /\ UNCHANGED <<m_state, m_shards, msg, ret, cosig, fired, decoded, isLookupNode>>

\* Line 187: RunConsensusOnFinalBlock, called with the lock held.
RunConsensusOnFinalBlock(t) ==
    /\ pc[t] = "trigger"
    /\ m_state' = "SubmissionsComplete"
    /\ fired' = fired \cup {t}
    /\ pc' = [pc EXCEPT ![t] = "return"]
    /\ UNCHANGED <<m_microBlocks, m_shards, mutex, msg, ret, cosig, atInsert, decoded,
                   isLookupNode>>

\* Line 200: the lock guard is released, the call returns true.
ReturnTrue(t) ==
    /\ pc[t] = "return"
    /\ mutex' = 0
    /\ Return(t, "true", "none")
    /\ UNCHANGED <<m_state, m_microBlocks, m_shards, msg, cosig, atInsert, fired,
                   decoded, isLookupNode>>

Next ==
    \/ \E t \in Calls : Gate(t)
    \/ \E t \in Calls : Parse(t)
    \/ \E t \in Calls : Verify(t)
    \/ \E t \in Calls : Insert(t)
    \/ \E t \in Calls : RunConsensusOnFinalBlock(t)
    \/ \E t \in Calls : ReturnTrue(t)

Spec == Init /\ [][Next]_vars

\* ------------------------------------------- shardCount distinct submissions
\* One call per shard, each carrying a valid summary of its own shard.
InitDistinct ==
    \E N \in 1..MaxShards :
        /\ m_shards = Registry(N, CommitteeSize)
        /\ InitCalls(1..N, ValidMessages(N, CommitteeSize))
        /\ \A t \in 1..N : msg[t].shardId = t - 1

SpecDistinct == InitDistinct /\ [][Next]_vars

\* The same calls on threads the scheduler keeps running: a call that can take a
\* step eventually takes one (std::mutex is released by every holder).
SpecDistinctFair == InitDistinct /\ [][Next]_vars /\ WF_vars(Next)

\* ------------------------------------------------- one call, any co-signature
Bitmaps(k) == UNION {[1..l -> BOOLEAN] : l \in 0..k}

\* Messages that reach line 160 for shard 0 of a roster of n, with every bitmap
\* of up to n + 1 entries and every signature over the roster's keys.
CoSigMessages(n) ==
    {[ValidMessage(0, 1, n) EXCEPT !.microBlock =
        [minerPubKey |-> PubKey(0, 1), digest |-> 1, bitmap |-> b,
         sig |-> [signers |-> S, digest |-> d]]] :
        b \in Bitmaps(n + 1), S \in SUBSET {PubKey(0, i) : i \in 1..n}, d \in Digests}

InitVerify ==
    \E n \in 1..CommitteeSize :
        /\ m_shards = Registry(1, n)
        /\ InitCalls({1}, CoSigMessages(n))

SpecVerify == InitVerify /\ [][Next]_vars

\* ------------------------------------------------ both builds, any phase
\* The calls of Spec on a directory node or a lookup node, started in either phase.
InitRole ==
    \E N \in 1..MaxShards :
        /\ m_shards = Registry(N, CommitteeSize)
        /\ m_state \in {"MICROBLOCK_SUBMISSION", "SubmissionsComplete"}
        /\ isLookupNode \in BOOLEAN
        /\ m_microBlocks = {}
        /\ mutex = 0
        /\ pc = [t \in 1..NumCalls |-> "gate"]
        /\ msg \in [1..NumCalls ->
                ValidMessages(N, CommitteeSize) \cup SpoiledMessages(N, CommitteeSize)]
        /\ ret = [t \in 1..NumCalls |-> NoRet]
        /\ cosig = [t \in 1..NumCalls |-> "none"]
        /\ atInsert = [t \in 1..NumCalls |-> NoInsert]
        /\ fired = {}
        /\ decoded = [t \in 1..NumCalls |-> {}]

SpecRole == InitRole /\ [][Next]_vars

\* ------------------------------------------------------------------ claims
AllDone == \A t \in Calls : pc[t] = "done"

HasShard(s) == \E x \in m_microBlocks : x.minerPubKey[1] = s

\* C1: within one round RunConsensusOnFinalBlock is invoked at most once,
\* whatever the calls and their interleaving.
C1_TriggerAtMostOnce == Cardinality(fired) <= 1

\* C2: shardCount concurrent calls with valid summaries of pairwise distinct
\* shards: at most one call ever observes the completing insert, and when all
\* have returned exactly one trigger was produced.
C2_ExactlyOneCompletion ==
    /\ Cardinality({t \in Calls : pc[t] = "trigger"} \cup fired) <= 1
    /\ AllDone => /\ Cardinality(fired) = 1
                  /\ \A t \in Calls : ret[t].val = "true"

C2_Witness == AllDone /\ Cardinality(fired) = 1 /\ Cardinality(Calls) > 1

\* C3: the batch holds at most one summary per shard id.
C3_OnePerShard ==
    \A a, b \in m_microBlocks : a.minerPubKey[1] = b.minerPubKey[1] => a = b

\* C4: the batch never holds more summaries than there are shards.
C4_BatchWithinShardCount == Cardinality(m_microBlocks) <= Cardinality(DOMAIN m_shards)

\* C5: whenever the trigger is invoked every shard of the registry has a
\* summary in the batch.
C5_TriggerOnlyWhenAllReported ==
    \A t \in Calls : pc[t] = "trigger" => \A s \in DOMAIN m_shards : HasShard(s)

\* C6: a call that meets the gate outside MICROBLOCK_SUBMISSION returns false
\* (WrongPhase) in that step, leaving the batch and the trigger count alone, and
\* no call that returned WrongPhase ever inserted or fired.
C6_WrongPhaseRejected ==
    [][\A t \in Calls :
        /\ (pc[t] = "gate" /\ m_state # "MICROBLOCK_SUBMISSION" /\ pc'[t] # "gate")
            => /\ pc'[t] = "done"
               /\ ret'[t] = [val |-> "false", err |-> "WrongPhase"]
               /\ m_microBlocks' = m_microBlocks
               /\ fired' = fired
               /\ m_state' = m_state
        /\ ret'[t].err = "WrongPhase" => ~atInsert'[t].done /\ t \notin fired']_vars

C6_Witness ==
    \E t \in Calls :
        /\ ret[t] = [val |-> "false", err |-> "WrongPhase"]
        /\ msg[t] \in ValidMessages(Cardinality(DOMAIN m_shards), CommitteeSize)

\* The claims about Verify speak of the roster of the call's shard, the number of
\* true bitmap entries and a signature produced by exactly the marked members.
RosterOf(t) == m_shards[msg[t].shardId]
BitmapOf(t) == msg[t].microBlock.bitmap
TrueBits(t) == Cardinality({i \in DOMAIN BitmapOf(t) : BitmapOf(t)[i]})
Threshold(t) == (2 * Len(RosterOf(t))) \div 3 + 1
Verified(t) == cosig[t] # "none"
WellFormed(t) == Len(BitmapOf(t)) = Len(RosterOf(t))
SignedByMarked(t) ==
    /\ WellFormed(t)
    /\ msg[t].microBlock.sig.signers =
           {RosterOf(t)[i] : i \in {j \in DOMAIN BitmapOf(t) : BitmapOf(t)[j]}}
    /\ msg[t].microBlock.sig.digest = msg[t].microBlock.digest

\* C7: with threshold = floor(2n/3)+1, a bitmap of the roster with exactly
\* threshold true bits and a correctly produced signature is accepted; one with
\* threshold - 1 true bits is never accepted, whatever the signature.
C7_ThresholdBoundary ==
    \A t \in Calls : Verified(t) =>
        /\ (TrueBits(t) = Threshold(t) /\ SignedByMarked(t)) => cosig[t] = "ok"
        /\ TrueBits(t) = Threshold(t) - 1 => cosig[t] # "ok"
        /\ (TrueBits(t) = Threshold(t) - 1 /\ WellFormed(t))
               => cosig[t] = "InsufficientSigners"

C7_Witness ==
    \E t \in Calls :
        /\ cosig[t] = "ok"
        /\ Len(RosterOf(t)) = CommitteeSize
        /\ TrueBits(t) = Threshold(t)
        /\ SignedByMarked(t)

\* C8: every bitmap of the roster whose count of true entries meets or exceeds
\* the threshold is accepted when the signature is valid for the marked keys.
C8_MeetOrExceedAccepted ==
    \A t \in Calls :
        (Verified(t) /\ TrueBits(t) >= Threshold(t) /\ SignedByMarked(t))
            => cosig[t] = "ok"

\* C9: every bitmap whose length differs from the roster length is rejected
\* with an error value (never accepted, never an exception).
C9_LengthMismatchRejected ==
    \A t \in Calls :
        (Verified(t) /\ ~WellFormed(t)) => cosig[t] \notin {"ok", "out_of_range"}

\* C10: a call whose shard already has a summary in the batch when it inserts
\* leaves the batch as it is, observes no completion, fires no trigger and
\* returns failure.
C10_DuplicateShardFails ==
    \A t \in Calls :
        (atInsert[t].done /\ atInsert[t].shardPresent)
            => /\ ~atInsert[t].grew
               /\ pc[t] # "trigger"
               /\ t \notin fired
               /\ pc[t] = "done" => ret[t].val = "false"

\* C11: a call that fails at steps 1-9 leaves the batch and the phase as they
\* are and fires nothing; the batch changes only in the insert step, and only by
\* the summary of a call that passed the size, freshness, round, producer and
\* co-signature checks.
C11_FailuresLeaveStateAlone ==
    [][/\ m_microBlocks' # m_microBlocks =>
            \E t \in Calls :
                /\ pc[t] = "lock" /\ pc'[t] # "lock"
                /\ ParseOutcome(msg[t]) = "ok"
                /\ cosig[t] = "ok"
                /\ m_microBlocks' = m_microBlocks \cup {msg[t].microBlock}
       /\ \A t \in Calls :
            (pc[t] # "done" /\ pc'[t] = "done" /\ ret'[t].val # "true")
                => /\ m_microBlocks' = m_microBlocks
                   /\ m_state' = m_state
                   /\ fired' = fired
                   /\ ~atInsert'[t].done
                   /\ t \notin fired']_vars

C11_Witness ==
    \E t, u \in Calls :
        /\ ret[t].val = "false"
        /\ ret[t].err \in {"SignatureInvalid", "InsufficientSigners", "ShardMismatch"}
        /\ atInsert[u].done
        /\ m_microBlocks = {msg[u].microBlock}

Short(t) == msg[t].size - msg[t].offset < UINT256_SIZE + UINT32_SIZE + UINT32_SIZE + TxBlockGetMinSize

\* C12 as stated: a message shorter than the fixed header yields TooShort in
\* every protocol phase, with none of the fields decoded.
C12_ShortAlwaysTooShort ==
    \A t \in Calls :
        (pc[t] = "done" /\ Short(t)) => ret[t].err = "TooShort" /\ decoded[t] = {}

\* C12 amended: a short message yields TooShort whenever the call passed the
\* phase gate, and WrongPhase when the gate rejected it first; in both cases it
\* returns failure and none of the fields is decoded.
C12_ShortTooShortPastGate ==
    [][\A t \in Calls : Short(t) =>
        /\ (pc[t] = "gate" /\ pc'[t] # "gate" /\ m_state # "MICROBLOCK_SUBMISSION")
              => ret'[t] = [val |-> "false", err |-> "WrongPhase"]
        /\ (pc[t] = "parse" /\ pc'[t] # "parse")
              => /\ pc'[t] = "done"
                 /\ ret'[t] = [val |-> "false", err |-> "TooShort"]
        /\ decoded'[t] = {}
        /\ pc'[t] \in {"gate", "parse", "done"}]_vars

C12_Witness == \E t \in Calls : Short(t) /\ ret[t].err = "TooShort" /\ pc[t] = "done"

\* C13: with one valid submission per shard, no call observes completion or
\* fires while the batch is smaller than the shard count; the call that fires is
\* the one whose insert filled the batch; and under fair scheduling the trigger
\* does fire.
C13_FiresOnLastInsert ==
    /\ [](\A t \in Calls : (pc[t] = "trigger" \/ t \in fired) =>
            /\ Cardinality(m_microBlocks) = Cardinality(DOMAIN m_shards)
            /\ atInsert[t].grew)
    /\ [](Cardinality(m_microBlocks) < Cardinality(DOMAIN m_shards) => fired = {})
    /\ <>(fired # {})

C13_Witness ==
    /\ Cardinality(DOMAIN m_shards) = MaxShards
    /\ \E t \in Calls : pc[t] = "trigger" /\ Cardinality(m_microBlocks) = MaxShards
    /\ \E u \in Calls : pc[u] = "done" /\ ret[u].val = "true"

\* C14: every call ends with a result, true or false, for every input.
C14_EveryCallReturns ==
    \A t \in Calls : pc[t] = "done" => ret[t].val \in {"true", "false"}

\* C15: every insert into the batch happens while the phase is
\* MICROBLOCK_SUBMISSION.
C15_InsertOnlyInSubmissionPhase ==
    \A t \in Calls : atInsert[t].done => atInsert[t].state = "MICROBLOCK_SUBMISSION"

ProducerOf(t) == msg[t].microBlock.minerPubKey
Registered(k) == \E s \in DOMAIN m_shards : \E i \in DOMAIN m_shards[s] : m_shards[s][i] = k
InRoster(k, s) == s \in DOMAIN m_shards /\ \E i \in DOMAIN m_shards[s] : m_shards[s][i] = k

\* C16: every summary of the batch came in a message whose producer key is
\* registered for the shard id of that message; a decoded message with an
\* unregistered key returns UnknownProducer, one whose key belongs to another
\* shard returns ShardMismatch, both without the co-signature being verified.
C16_ProducerMatchesShard ==
    /\ \A x \in m_microBlocks : \E t \in Calls : atInsert[t].done /\ msg[t].microBlock = x
    /\ \A t \in Calls :
        /\ atInsert[t].done => InRoster(ProducerOf(t), msg[t].shardId)
        /\ ("microBlock" \in decoded[t] /\ pc[t] # "parse" /\ ~Registered(ProducerOf(t)))
              => /\ ret[t] = [val |-> "false", err |-> "UnknownProducer"]
                 /\ cosig[t] = "none"
        /\ ("microBlock" \in decoded[t] /\ pc[t] # "parse" /\ Registered(ProducerOf(t))
                /\ ~InRoster(ProducerOf(t), msg[t].shardId))
              => /\ ret[t] = [val |-> "false", err |-> "ShardMismatch"]
                 /\ cosig[t] = "none"

C16_Witness ==
    /\ \E t \in Calls : ret[t].err = "ShardMismatch" /\ msg[t].shardId \in DOMAIN m_shards
    /\ \E u \in Calls : ret[u].err = "UnknownProducer"

\* C17: a summary enters the batch only if its message carries the expected
\* consensus id; a message with another id returns failure without its shard id
\* or its summary being decoded, with RoundMismatch once the id was read.
C17_RoundIdChecked ==
    \A t \in Calls :
        /\ atInsert[t].done => msg[t].consensusID = m_consensusID
        /\ msg[t].consensusID # m_consensusID =>
            /\ decoded[t] \cap {"shardId", "microBlock"} = {}
            /\ pc[t] \in {"gate", "parse", "done"}
            /\ pc[t] = "done" => ret[t].val = "false"
            /\ "consensusID" \in decoded[t] => ret[t].err = "RoundMismatch"

C17_Witness ==
    \E t \in Calls :
        /\ ret[t] = [val |-> "false", err |-> "RoundMismatch"]
        /\ decoded[t] = {"DSBlockNum", "consensusID"}

\* C18 as stated: the lock is held by no call in steps 1-9 and is scoped to the
\* insert plus the completion check, so its holder has inserted and compared the
\* sizes and is neither invoking nor past RunConsensusOnFinalBlock.
C18_LockScopedToInsertAndCheck ==
    /\ \A t \in Calls : pc[t] \in {"gate", "parse", "verify", "lock", "done"} => mutex # t
    /\ mutex # 0 => (pc[mutex] = "return" /\ mutex \notin fired)

\* C18 amended: the batch lock is held by no call that is still in steps 1-9 or
\* waiting at line 165; its holder has passed verification and is between the
\* insert and the return, the call of RunConsensusOnFinalBlock included.
C18_LockOnlyAfterVerification ==
    /\ \A t \in Calls : pc[t] \in {"gate", "parse", "verify", "lock", "done"} => mutex # t
    /\ mutex # 0 => (pc[mutex] \in {"trigger", "return"} /\ cosig[mutex] = "ok")

\* Two calls inside verification at once.
C18_Witness ==
    \E t, u \in Calls : t # u /\ pc[t] = "verify" /\ pc[u] = "verify"

\* C19: the call about to invoke RunConsensusOnFinalBlock holds the lock, and
\* from its insert until it returns no step of another call changes the batch.
C19_TriggerUnderLock ==
    [][\A t \in Calls : pc[t] \in {"trigger", "return"} =>
        /\ mutex = t
        /\ m_microBlocks' = m_microBlocks
        /\ \A u \in Calls \ {t} : atInsert'[u] = atInsert[u]]_vars

C19_Witness ==
    \E t, u \in Calls : t # u /\ pc[t] = "trigger" /\ pc[u] = "lock"

\* C20: on a lookup node every call returns true in every phase without reading
\* the message, verifying, inserting or firing; on a directory node only a call
\* that reached the insert returns true.
C20_LookupNodeAcceptsAll ==
    /\ isLookupNode =>
        /\ m_microBlocks = {} /\ fired = {} /\ mutex = 0
        /\ \A t \in Calls :
            /\ pc[t] \in {"gate", "done"}
            /\ pc[t] = "done" => ret[t] = [val |-> "true", err |-> "none"]
            /\ decoded[t] = {} /\ cosig[t] = "none" /\ ~atInsert[t].done
    /\ ~isLookupNode => \A t \in Calls : ret[t].val = "true" => atInsert[t].done

C20_Witness ==
    /\ isLookupNode
    /\ m_state # "MICROBLOCK_SUBMISSION"
    /\ \A t \in Calls : ret[t].val = "true"
    /\ \E t \in Calls : Short(t)

====
